---- MODULE Spec2Model ----
(***************************************************************************)
(* Model of ruma-client's Client (src/src/lib.rs): the shared ClientData   *)
(* (homeserver_url, http_client, session mutex), the request dispatcher    *)
(* Client::request, the login/registration helpers, Client::session and    *)
(* the sync stream built with stream::unfold.                              *)
(*                                                                         *)
(* Text is modelled as sequences of one-character strings so that the      *)
(* query-string manipulation of request() (set_query, append_pair and its  *)
(* form-urlencoding) is computed rather than assumed.  Option<T> is the    *)
(* empty sequence (None) or a one-element sequence (Some(x)).              *)
(***************************************************************************)
EXTENDS Integers, Sequences, FiniteSets, TLC

VARIABLES
    homeserver_url,  \* ClientData.homeserver_url
    session,         \* the value inside ClientData.session : Option<Session>
    lock,            \* holder of the ClientData.session mutex, or NoHolder
    inflight,        \* per slot: requests handed to http_client and not yet answered
    disp,            \* per slot: the request() future of that slot
    task,            \* per caller task: the Client method it is running
    stream,          \* per sync stream: the unfold state and the closure's parameters
    reqs,            \* per sync stream: the sync_events::Request values dispatched, in order
    dres,            \* per sync stream: the results of those dispatches, in order
    out,             \* per sync stream: what each poll of the stream returned, in order
    nops,            \* number of Client methods started and stream polls made
    last,            \* what the latest step returned to its caller, if it returned
    issued,          \* the Session the client was constructed with, or the one
                     \* the latest successful log_in / registration returned
    written          \* who stored that session ("new": Client::new), how many
                     \* polls of each stream had returned by then, and what
                     \* the session() calls returned since, in order

vars == <<homeserver_url, session, lock, inflight, disp, task, stream,
          reqs, dres, out, nops, last, issued, written>>

----------------------------------------------------------------------------
(* Bounds of the model *)

MaxOps == 4      \* Client methods started and stream polls made in one run

Tasks == {"t1", "t2"}      \* concurrent callers holding clones of the Client
Streams == {"s1"}          \* sync streams (each holds its own clone)
Slots == Tasks \cup Streams

----------------------------------------------------------------------------
(* Option and text helpers *)

None == <<>>
Some(x) == <<x>>

ACCESS_TOKEN == <<"a","c","c","e","s","s","_","t","o","k","e","n">>

RECURSIVE Concat(_)
Concat(ss) == IF ss = <<>> THEN <<>> ELSE Head(ss) \o Concat(Tail(ss))

\* form_urlencoded::byte_serialize, on the characters the model uses:
\* alphanumerics and * - . _ are kept, a space becomes +, the rest %XX.
byte_serialize(c) ==
    CASE c = "=" -> <<"%","3","D">>
      [] c = "&" -> <<"%","2","6">>
      [] c = " " -> <<"+">>
      [] OTHER   -> <<c>>

form_urlencode(s) == Concat([i \in 1..Len(s) |-> byte_serialize(s[i])])

\* append_pair writing the value as it is, without form-urlencoding it
append_pair_raw(query, name, value) ==
    LET q   == IF query = None THEN <<>> ELSE query[1]
        sep == IF q = <<>> THEN <<>> ELSE <<"&">>
    IN  Some(q \o sep \o form_urlencode(name) \o <<"=">> \o value)

\* url.query_pairs_mut().append_pair(name, value): starts an empty query when
\* there is none, writes '&' when the query is not empty, then name=value,
\* both form-urlencoded.
append_pair(query, name, value) ==
    LET q   == IF query = None THEN <<>> ELSE query[1]
        sep == IF q = <<>> THEN <<>> ELSE <<"&">>
    IN  Some(q \o sep \o form_urlencode(name) \o <<"=">> \o form_urlencode(value))

----------------------------------------------------------------------------
(* Data *)

\* Session { access_token, device_id, user_id }
Session(at, dev, user) == [access_token |-> at, device_id |-> dev, user_id |-> user]

\* a session handed to Client::new
InitSession == Session(<<"i">>, "D0", "@i:x")

\* wire responses of the homeserver the transport may return; ok = FALSE is a
\* response the endpoint's try_from rejects (non-2xx status or malformed body)
Body(ok, at, dev, user, nb) ==
    [ok |-> ok, access_token |-> at, device_id |-> dev, user_id |-> user,
     next_batch |-> nb]
NoBody == Body(FALSE, <<>>, "", "", "")

LoginBodies == { Body(TRUE, <<"a">>, "D1", "@a:x", ""),
                 Body(TRUE, <<"b","&">>, "D2", "@b:x", "") }
SyncBodies == { Body(TRUE, <<>>, "", "", "t1"), Body(TRUE, <<>>, "", "", "t2") }
PlainBodies == { Body(TRUE, <<>>, "", "", "") }
BadBody == NoBody

\* what the await of http_client.call(..) gives: a response, or the
\* transport's error
Response(b) == [failed |-> FALSE, body |-> b]
TransportFailure == [failed |-> TRUE, body |-> NoBody]

\* Result<_, Error> of request(); err names the InnerError variant
Pending == [kind |-> "Pending", err |-> "", body |-> NoBody]
Ok(b)   == [kind |-> "Ok", err |-> "", body |-> b]
Err(e)  == [kind |-> "Err", err |-> e, body |-> NoBody]

\* Url: what request() reads and rewrites of it
Url(scheme, host, port, path, query, fragment) ==
    [scheme |-> scheme, host |-> host, port |-> port, path |-> path,
     query |-> query, fragment |-> fragment]
NoUrl == Url("", "", "", "", None, None)

\* a scheme longer than http::Uri accepts (MAX_SCHEME_LEN), which Url accepts
LongScheme == "scheme-of-65-characters"

HomeserverUrls ==
    { Url("http", "hs.test", "8448", "/base", Some(<<"x","=","1">>), Some("frag")),
      Url(LongScheme, "example.com", "", "/", None, None) }

\* http::Uri of the wire request: path and query as produced by the endpoint's
\* conversion (uri.path(), uri.query())
WireUri(path, query) == [path |-> path, query |-> query]

\* the abstract request given to request(): the endpoint's METADATA flag, the
\* outcome of its TryInto<http::Request> conversion (None when it fails), and,
\* for sync_events::Request, the fields Client::sync fills in
Request(ep, auth, wire, since, filter, set_presence) ==
    [endpoint |-> ep, requires_authentication |-> auth, wire |-> wire,
     since |-> since, filter |-> filter, set_presence |-> set_presence]
NoRequest == Request("", FALSE, None, None, None, None)


----------------------------------------------------------------------------
(* The requests the Client builds itself *)

\* requires_authentication of the endpoints used by the convenience methods
LoginRequiresAuth == FALSE
RegisterRequiresAuth == FALSE
SyncRequiresAuth == TRUE

LOGIN_PATH == "/_matrix/client/r0/login"
REGISTER_PATH == "/_matrix/client/r0/register"
SYNC_PATH == "/_matrix/client/r0/sync"

KIND_GUEST == <<"k","i","n","d","=","g","u","e","s","t">>
KIND_USER == <<"k","i","n","d","=","u","s","e","r">>

\* login::Request { .. } of log_in and its wire form
login_request ==
    Request("login", LoginRequiresAuth, Some(WireUri(LOGIN_PATH, None)),
            None, None, None)

\* register::Request { kind: Some(Guest), .. } of register_guest
register_guest_request ==
    Request("register", RegisterRequiresAuth,
            Some(WireUri(REGISTER_PATH, Some(KIND_GUEST))), None, None, None)

\* register::Request { kind: Some(User), .. } of register_user
register_user_request ==
    Request("register", RegisterRequiresAuth,
            Some(WireUri(REGISTER_PATH, Some(KIND_USER))), None, None, None)

\* sync_events::Request { filter, since, full_state: None, set_presence,
\* timeout: None } of the sync closure; its query carries the since token
sync_request(filter, since, set_presence) ==
    Request("sync", SyncRequiresAuth,
            Some(WireUri(SYNC_PATH,
                 IF since = None THEN None
                 ELSE Some(<<"s","i","n","c","e","=">> \o form_urlencode(<<since[1]>>)))),
            since, filter, set_presence)

\* requests of other endpoints a caller passes to request() directly
CustomQueries ==
    { Some(<<"k","=","v">>),
      Some(ACCESS_TOKEN \o <<"=","i">>) }

CustomRequests ==
    { Request("custom", auth, wire, None, None, None) :
        auth \in BOOLEAN,
        wire \in {None} \cup { Some(WireUri("/custom", q)) : q \in CustomQueries } }
    \ { Request("custom", FALSE, Some(WireUri("/custom", Some(ACCESS_TOKEN \o <<"=","i">>))),
                 None, None, None) }

\* what the transport may answer a request of an endpoint with
Answers(ep) ==
    {TransportFailure} \cup
    { Response(b) : b \in
        CASE ep = "login"    -> LoginBodies \cup {BadBody}
          [] ep = "register" -> LoginBodies \cup {BadBody}
          [] ep = "sync"     -> SyncBodies \cup {BadBody}
          [] OTHER           -> PlainBodies \cup {BadBody} }

----------------------------------------------------------------------------
(* State *)

NoHolder == "nobody"

\* the request() future of a slot
\*   pc      : "idle" (no future), "converted", "locked", "authed", "calling", "done"
\*   request : the abstract request
\*   url     : the local `url` (the clone of homeserver_url being rewritten)
\*   seen    : None until the session is read; Some(value read) afterwards
\*   uri     : the URI of the wire request handed to http_client.call, if any
\*   ncalls  : http_client.call invocations of this future
\*   answer  : what the awaited call gave, once it has
\*   result  : the future's output
IdleDispatch ==
    [pc |-> "idle", request |-> NoRequest, url |-> NoUrl, seen |-> None,
     uri |-> None, ncalls |-> 0, answer |-> None, result |-> Pending]

\* State of the sync closure
InitialSync == [tag |-> "InitialSync", token |-> ""]
Since(s) == [tag |-> "Since", token |-> s]
Errored == [tag |-> "Errored", token |-> ""]

\* the Unfold stream: ustate is "NotCreated", "Value" (holds the State),
\* "Future" (the closure's future is running) or "Empty" (it returned None)
\* args are the arguments sync() was called with
NoStream ==
    [ustate |-> "NotCreated", state |-> InitialSync, filter |-> None,
     set_presence |-> None, args |-> <<>>]

\* a caller task: op is the Client method it runs, pc its position in it
IdleTask == [op |-> "none", pc |-> "idle"]

\* the return of a Client method (or of a stream's dispatch) by the latest
\* step: the slot, the method, its request() future as it ended, the value
\* returned (ret: a Result; val: the Session of log_in and the registrations,
\* or the Option<Session> of session()); NoLast when the step returned nothing
Finished(d, op, dispatch, ret, val) ==
    [slot |-> d, op |-> op, disp |-> dispatch, ret |-> ret, val |-> val]
NoLast == Finished("", "none", IdleDispatch, Pending, None)

Init ==
    /\ homeserver_url \in HomeserverUrls
    /\ session \in {None, Some(InitSession)}
    /\ issued = session
    /\ written = [by |-> "new", polls |-> [s \in Streams |-> 0], reads |-> <<>>]
    /\ lock = NoHolder
    /\ inflight = [d \in Slots |-> 0]
    /\ disp = [d \in Slots |-> IdleDispatch]
    /\ task = [t \in Tasks |-> IdleTask]
    /\ stream = [s \in Streams |-> NoStream]
    /\ reqs = [s \in Streams |-> <<>>]
    /\ dres = [s \in Streams |-> <<>>]
    /\ out = [s \in Streams |-> <<>>]
    /\ nops = 0
    /\ last = NoLast

----------------------------------------------------------------------------
(* What the owner of a request() future does when the future completes *)

LoginOps == {"log_in", "register_guest", "register_user"}

\* a caller's `client.request(r).await` returns
request_returns(t, done) ==
    /\ task' = [task EXCEPT ![t] = IdleTask]
    /\ disp' = [disp EXCEPT ![t] = IdleDispatch]
    /\ last' = Finished(t, "request", done, done.result, None)
    /\ UNCHANGED <<stream, out>>

\* the methods without the `?` on their request: they go on to store a
\* session whatever the request's outcome
login_resumes_unchecked(t, done) ==
    /\ task' = [task EXCEPT ![t].pc = "store"]
    /\ disp' = [disp EXCEPT ![t] = done]
    /\ last' = NoLast
    /\ UNCHANGED <<stream, out>>

\* `.await?` of log_in / register_guest / register_user: a failed request is
\* returned; otherwise the method goes on to store the session
login_resumes(t, done) ==
    /\ IF done.result.kind = "Err"
       THEN /\ task' = [task EXCEPT ![t] = IdleTask]
            /\ disp' = [disp EXCEPT ![t] = IdleDispatch]
            /\ last' = Finished(t, task[t].op, done, done.result, None)
       ELSE /\ task' = [task EXCEPT ![t].pc = "store"]
            /\ disp' = [disp EXCEPT ![t] = done]
            /\ last' = NoLast
    /\ UNCHANGED <<stream, out>>

\* the closure without its Errored state: after a failure the State is kept
sync_yields_continue(s, done) ==
    /\ stream' = [stream EXCEPT
          ![s].ustate = "Value",
          ![s].state = IF done.result.kind = "Ok"
                       THEN Since(done.result.body.next_batch)
                       ELSE @]
    /\ out' = [out EXCEPT ![s] = Append(@, done.result)]
    /\ disp' = [disp EXCEPT ![s] = IdleDispatch]
    /\ last' = Finished(s, "sync", done, done.result, None)
    /\ task' = [t \in Tasks |-> IF task[t].op = "next" THEN IdleTask ELSE task[t]]

\* the closure returning its old State after a success instead of
\* Since(next_batch)
sync_yields_stale(s, done) ==
    /\ stream' = [stream EXCEPT
          ![s].ustate = "Value",
          ![s].state = IF done.result.kind = "Ok" THEN @ ELSE Errored]
    /\ out' = [out EXCEPT ![s] = Append(@, done.result)]
    /\ disp' = [disp EXCEPT ![s] = IdleDispatch]
    /\ last' = Finished(s, "sync", done, done.result, None)
    /\ task' = [t \in Tasks |-> IF task[t].op = "next" THEN IdleTask ELSE task[t]]

\* the closure keeping its State after AuthenticationRequired, so that the
\* stream dispatches again once a session is stored
sync_yields_revivable(s, done) ==
    /\ stream' = [stream EXCEPT
          ![s].ustate = "Value",
          ![s].state = IF done.result.kind = "Ok"
                       THEN Since(done.result.body.next_batch)
                       ELSE IF done.result = Err("AuthenticationRequired") THEN @
                       ELSE Errored]
    /\ out' = [out EXCEPT ![s] = Append(@, done.result)]
    /\ disp' = [disp EXCEPT ![s] = IdleDispatch]
    /\ last' = Finished(s, "sync", done, done.result, None)
    /\ task' = [t \in Tasks |-> IF task[t].op = "next" THEN IdleTask ELSE task[t]]

\* `match res` of the sync closure, and Unfold storing the next State and
\* yielding the item
sync_yields(s, done) ==
    /\ stream' = [stream EXCEPT
          ![s].ustate = "Value",
          ![s].state = IF done.result.kind = "Ok"
                       THEN Since(done.result.body.next_batch)
                       ELSE Errored]
    /\ out' = [out EXCEPT ![s] = Append(@, done.result)]
    /\ disp' = [disp EXCEPT ![s] = IdleDispatch]
    /\ last' = Finished(s, "sync", done, done.result, None)
    /\ task' = [t \in Tasks |-> IF task[t].op = "next" THEN IdleTask ELSE task[t]]

\* a step of slot d's request() future to `new`; a completed future resumes
\* its owner in the same poll.  inflight counts the calls handed to the
\* transport and not yet answered, dres logs the outputs of a stream's futures
Step(d, op, new) ==
    /\ inflight' = [inflight EXCEPT ![d] =
                       IF new.pc = "calling" THEN @ + 1
                       ELSE IF disp[d].pc = "calling" THEN @ - 1
                       ELSE @]
    /\ dres' = IF d \in Streams /\ new.pc = "done"
               THEN [dres EXCEPT ![d] = Append(@, new.result)]
               ELSE dres
    /\ IF new.pc # "done"
       THEN /\ disp' = [disp EXCEPT ![d] = new]
            /\ last' = NoLast
            /\ UNCHANGED <<stream, out>>
            /\ task' = IF d \in Tasks /\ task[d].pc = "idle"
                       THEN [task EXCEPT ![d] = [op |-> op, pc |-> "await"]]
                       ELSE task
       ELSE IF d \in Streams THEN sync_yields(d, new)
       ELSE IF op \in LoginOps THEN login_resumes(d, new)
       ELSE request_returns(d, new)

OpOf(d) == IF d \in Tasks THEN task[d].op ELSE "sync"

----------------------------------------------------------------------------
(* Client::request *)

\* Uri::from_str(url.as_ref()): the serialised Url parsed as an http::Uri; the
\* fragment is not part of an http::Uri, an over-long scheme is InvalidUri
UriFromStr(url) ==
    IF url.scheme = LongScheme THEN None
    ELSE Some([scheme |-> url.scheme, host |-> url.host, port |-> url.port,
               path |-> url.path, query |-> url.query])

\* *request.uri_mut() = Uri::from_str(url.as_ref())?; then
\* client.http_client.call(request), whose future is awaited
Call(dsp) ==
    IF UriFromStr(dsp.url) = None
    THEN [dsp EXCEPT !.pc = "done", !.result = Err("Uri")]
    ELSE [dsp EXCEPT !.pc = "calling", !.uri = UriFromStr(dsp.url), !.ncalls = @ + 1]

\* request() keeping the query of the homeserver URL when the endpoint's wire
\* request has none (set_query skipped for None)
StartRequest_keep_query(req) ==
    IF req.wire = None
    THEN [IdleDispatch EXCEPT !.pc = "done", !.request = req,
                              !.url = homeserver_url, !.result = Err("RumaApi")]
    ELSE LET converted ==
                [IdleDispatch EXCEPT !.pc = "converted", !.request = req,
                                     !.url = [homeserver_url EXCEPT
                                                 !.path = req.wire[1].path,
                                                 !.query = IF req.wire[1].query = None
                                                           THEN @
                                                           ELSE req.wire[1].query]]
         IN  IF req.requires_authentication THEN converted ELSE Call(converted)

\* request() performing the authentication step before the conversion: a
\* request that cannot be converted still goes to the session lock when its
\* endpoint requires authentication
StartRequest_auth_first(req) ==
    IF req.wire = None /\ ~req.requires_authentication
    THEN [IdleDispatch EXCEPT !.pc = "done", !.request = req,
                              !.url = homeserver_url, !.result = Err("RumaApi")]
    ELSE LET converted ==
                [IdleDispatch EXCEPT !.pc = "converted", !.request = req,
                                     !.url = IF req.wire = None THEN homeserver_url
                                             ELSE [homeserver_url EXCEPT
                                                      !.path = req.wire[1].path,
                                                      !.query = req.wire[1].query]]
         IN  IF req.requires_authentication THEN converted ELSE Call(converted)

\* request() without the test of METADATA.requires_authentication: every
\* request goes through the authentication step
StartRequest_always_auth(req) ==
    IF req.wire = None
    THEN [IdleDispatch EXCEPT !.pc = "done", !.request = req,
                              !.url = homeserver_url, !.result = Err("RumaApi")]
    ELSE [IdleDispatch EXCEPT !.pc = "converted", !.request = req,
                              !.url = [homeserver_url EXCEPT
                                          !.path = req.wire[1].path,
                                          !.query = req.wire[1].query]]

\* request(): clone homeserver_url, then the first poll of the async block:
\* try_into()?, url.set_path, url.set_query, and, when the endpoint needs no
\* authentication, on to the call; otherwise up to the session lock
StartRequest(req) ==
    IF req.wire = None
    THEN [IdleDispatch EXCEPT !.pc = "done", !.request = req,
                              !.url = homeserver_url, !.result = Err("RumaApi")]
    ELSE LET converted ==
                [IdleDispatch EXCEPT !.pc = "converted", !.request = req,
                                     !.url = [homeserver_url EXCEPT
                                                 !.path = req.wire[1].path,
                                                 !.query = req.wire[1].query]]
         IN  IF req.requires_authentication THEN converted ELSE Call(converted)

\* client.session.lock().unwrap() of the authentication step
request_lock(d) ==
    /\ disp[d].pc = "converted"
    /\ lock = NoHolder
    /\ lock' = d
    /\ Step(d, OpOf(d), [disp[d] EXCEPT !.pc = "locked"])
    /\ UNCHANGED <<homeserver_url, session, reqs, nops, issued, written>>

\* the authentication step without its else branch: with no session the
\* request goes on unauthenticated
Authenticate_unchecked(dsp, guarded) ==
    IF guarded # None
    THEN [dsp EXCEPT !.pc = "authed",
                     !.seen = Some(guarded),
                     !.url.query = append_pair(@, ACCESS_TOKEN, guarded[1].access_token)]
    ELSE [dsp EXCEPT !.pc = "authed", !.seen = Some(guarded)]

\* if let Some(ref session) = *guard { append_pair } else { return Err }
Authenticate(dsp, guarded) ==
    IF guarded # None
    THEN [dsp EXCEPT !.pc = "authed",
                     !.seen = Some(guarded),
                     !.url.query = append_pair(@, ACCESS_TOKEN, guarded[1].access_token)]
    ELSE [dsp EXCEPT !.pc = "done",
                     !.seen = Some(guarded),
                     !.result = Err("AuthenticationRequired")]

\* the authentication step with a guard that lives on to the end of the
\* async block: the lock is still held when the transport is called
request_auth_holding(d) ==
    /\ disp[d].pc = "locked"
    /\ lock = d
    /\ lock' = d
    /\ LET authed == Authenticate(disp[d], session)
       IN  Step(d, OpOf(d), IF authed.pc = "done" THEN authed ELSE Call(authed))
    /\ UNCHANGED <<homeserver_url, session, reqs, nops, issued, written>>

\* the authentication step under the lock; the guard is dropped at the end of
\* the if-let statement, before the URI is parsed and the transport called
request_auth(d) ==
    /\ disp[d].pc = "locked"
    /\ lock = d
    /\ lock' = NoHolder
    /\ LET authed == Authenticate(disp[d], session)
       IN  Step(d, OpOf(d), IF authed.pc = "done" THEN authed ELSE Call(authed))
    /\ UNCHANGED <<homeserver_url, session, reqs, nops, issued, written>>

\* Incoming::try_from(response)
FromResponse(response) ==
    IF response.ok THEN Ok(response) ELSE Err("RumaApi")

\* request() calling the transport a second time when the first call failed
Resume_retry(dsp, answer) ==
    IF answer.failed /\ dsp.ncalls < 2
    THEN [dsp EXCEPT !.ncalls = @ + 1]
    ELSE [dsp EXCEPT !.pc = "done",
                     !.answer = Some(answer),
                     !.result = IF answer.failed THEN Err("HttpRequester")
                                ELSE FromResponse(answer.body)]

\* request() writing the token into the URI again when the call's answer
\* arrives, from the session stored at that moment
Resume_restamped(dsp, answer) ==
    [dsp EXCEPT !.pc = "done",
                !.answer = Some(answer),
                !.uri = IF dsp.request.requires_authentication /\ session # None
                        THEN Some([@[1] EXCEPT !.query =
                                      append_pair(dsp.request.wire[1].query,
                                                  ACCESS_TOKEN,
                                                  session[1].access_token)])
                        ELSE @,
                !.result = IF answer.failed THEN Err("HttpRequester")
                           ELSE FromResponse(answer.body)]

\* `.await?` on the call's future, then the conversion of the response
Resume(dsp, answer) ==
    [dsp EXCEPT !.pc = "done",
                !.answer = Some(answer),
                !.result = IF answer.failed THEN Err("HttpRequester")
                           ELSE FromResponse(answer.body)]

\* request() keeping the session of a login or registration response it
\* receives: the dispatcher itself writes the store
request_resume_caching(d) ==
    /\ disp[d].pc = "calling"
    /\ \E answer \in Answers(disp[d].request.endpoint) :
         /\ Step(d, OpOf(d), Resume(disp[d], answer))
         /\ session' = IF answer.body.ok /\ answer.body.access_token # <<>>
                       THEN Some(Session(answer.body.access_token,
                                         answer.body.device_id,
                                         answer.body.user_id))
                       ELSE session
    /\ UNCHANGED <<homeserver_url, lock, reqs, nops, issued, written>>

\* the transport answers the call of slot d and request() finishes
request_resume(d) ==
    /\ disp[d].pc = "calling"
    /\ \E answer \in Answers(disp[d].request.endpoint) :
         Step(d, OpOf(d), Resume(disp[d], answer))
    /\ UNCHANGED <<homeserver_url, session, lock, reqs, nops, issued, written>>

----------------------------------------------------------------------------
(* The caller tasks: request, log_in, register_guest, register_user, session *)

\* a task starts a Client method and polls its request() future
Begin(t, op, req) ==
    /\ task[t].pc = "idle"
    /\ nops < MaxOps
    /\ nops' = nops + 1
    /\ Step(t, op, StartRequest(req))
    /\ UNCHANGED <<homeserver_url, session, lock, reqs, issued, written>>

\* client.request(r).await by the caller, for an endpoint of its choice
request(t) == \E req \in CustomRequests : Begin(t, "request", req)

\* log_in up to the await of its request
log_in(t) == Begin(t, "log_in", login_request)

\* register_guest up to the await of its request
register_guest(t) == Begin(t, "register_guest", register_guest_request)

\* register_user up to the await of its request
register_user(t) == Begin(t, "register_user", register_user_request)

\* Session { access_token: response.access_token, .. }
SessionOf(response) ==
    Session(response.access_token, response.device_id, response.user_id)

\* self.0.session.lock().unwrap() of log_in / register_guest / register_user
login_lock(t) ==
    /\ task[t].op \in LoginOps
    /\ task[t].pc = "store"
    /\ lock = NoHolder
    /\ lock' = t
    /\ task' = [task EXCEPT ![t].pc = "locked"]
    /\ last' = NoLast
    /\ UNCHANGED <<homeserver_url, session, inflight, disp, stream,
                   reqs, dres, out, nops, issued, written>>

\* the assignment `*guard = Some(session.clone())` under way: the fields of
\* the stored value are overwritten one after the other, so that between the
\* first and the last the store holds part of the new session and part of
\* what was there before
PartlyWritten(old, new) ==
    Some(Session(new.access_token,
                 IF old = None THEN "" ELSE old[1].device_id,
                 IF old = None THEN "" ELSE old[1].user_id))

\* *guard = Some(session.clone()), begun
login_write(t) ==
    /\ task[t].op \in LoginOps
    /\ task[t].pc = "locked"
    /\ lock = t
    /\ session' = PartlyWritten(session, SessionOf(disp[t].result.body))
    /\ task' = [task EXCEPT ![t].pc = "writing"]
    /\ last' = NoLast
    /\ UNCHANGED <<homeserver_url, lock, inflight, disp, stream, reqs, dres, out,
                   nops, issued, written>>

\* the methods returning the session without completing the store
login_store_unwritten(t) ==
    /\ task[t].op \in LoginOps
    /\ task[t].pc = "writing"
    /\ lock = t
    /\ session' = issued
    /\ lock' = NoHolder
    /\ task' = [task EXCEPT ![t] = IdleTask]
    /\ disp' = [disp EXCEPT ![t] = IdleDispatch]
    /\ last' = Finished(t, task[t].op, disp[t], Ok(disp[t].result.body),
                        Some(SessionOf(disp[t].result.body)))
    /\ issued' = last'.val
    /\ written' = [by |-> t, polls |-> [s \in Streams |-> Len(out[s])],
                   reads |-> <<>>]
    /\ UNCHANGED <<homeserver_url, inflight, stream, reqs, dres, out, nops>>

\* *guard = Some(session.clone()) completed; the guard is dropped; Ok(session)
login_store(t) ==
    /\ task[t].op \in LoginOps
    /\ task[t].pc = "writing"
    /\ lock = t
    /\ session' = Some(SessionOf(disp[t].result.body))
    /\ lock' = NoHolder
    /\ task' = [task EXCEPT ![t] = IdleTask]
    /\ disp' = [disp EXCEPT ![t] = IdleDispatch]
    /\ last' = Finished(t, task[t].op, disp[t], Ok(disp[t].result.body),
                        Some(SessionOf(disp[t].result.body)))
    /\ issued' = last'.val
    /\ written' = [by |-> t, polls |-> [s \in Streams |-> Len(out[s])],
                   reads |-> <<>>]
    /\ UNCHANGED <<homeserver_url, inflight, stream, reqs, dres, out, nops>>

\* session() reading the store without waiting for the mutex
session_lock_unguarded(t) ==
    /\ task[t].pc = "idle"
    /\ nops < MaxOps
    /\ nops' = nops + 1
    /\ lock' = lock
    /\ task' = [task EXCEPT ![t] = [op |-> "session", pc |-> "locked"]]
    /\ last' = NoLast
    /\ UNCHANGED <<homeserver_url, session, inflight, disp, stream, reqs, dres, out,
                   issued, written>>

\* session(): self.0.session.lock().expect(..)
session_lock(t) ==
    /\ task[t].pc = "idle"
    /\ nops < MaxOps
    /\ nops' = nops + 1
    /\ lock = NoHolder
    /\ lock' = t
    /\ task' = [task EXCEPT ![t] = [op |-> "session", pc |-> "locked"]]
    /\ last' = NoLast
    /\ UNCHANGED <<homeserver_url, session, inflight, disp, stream, reqs, dres, out,
                   issued, written>>

\* session() taking the stored value (Option::take) instead of cloning it
session_read_take(t) ==
    /\ task[t].op = "session"
    /\ task[t].pc = "locked"
    /\ lock' = NoHolder
    /\ session' = None
    /\ task' = [task EXCEPT ![t] = IdleTask]
    /\ last' = Finished(t, "session", IdleDispatch, Ok(NoBody), session)
    /\ written' = [written EXCEPT !.reads = Append(@, last'.val)]
    /\ UNCHANGED <<homeserver_url, inflight, disp, stream,
                   reqs, dres, out, nops, issued>>

\* session() on a clone that has a store of its own: a session stored through
\* another clone is not in it
session_read_private(t) ==
    /\ task[t].op = "session"
    /\ task[t].pc = "locked"
    /\ lock' = NoHolder
    /\ task' = [task EXCEPT ![t] = IdleTask]
    /\ last' = Finished(t, "session", IdleDispatch, Ok(NoBody),
                        IF written.by \in {t, "new"} THEN session ELSE None)
    /\ written' = [written EXCEPT !.reads = Append(@, last'.val)]
    /\ UNCHANGED <<homeserver_url, session, inflight, disp, stream,
                   reqs, dres, out, nops, issued>>

\* session(): .clone() of the guarded value; the guard is dropped on return
session_read(t) ==
    /\ task[t].op = "session"
    /\ task[t].pc = "locked"
    /\ lock' = NoHolder
    /\ task' = [task EXCEPT ![t] = IdleTask]
    /\ last' = Finished(t, "session", IdleDispatch, Ok(NoBody), session)
    /\ written' = [written EXCEPT !.reads = Append(@, last'.val)]
    /\ UNCHANGED <<homeserver_url, session, inflight, disp, stream,
                   reqs, dres, out, nops, issued>>

----------------------------------------------------------------------------
(* Client::sync *)

\* the arguments of sync() the model tries: (filter, since, set_presence)
SyncArgs ==
    { <<None, None, TRUE>>, <<Some("f1"), Some("t0"), FALSE>> }

\* what a poll of the stream returned besides an item: the end of the stream
\* (None), or the panic of Unfold when polled after its end
EndOfStream == [kind |-> "None", err |-> "", body |-> NoBody]
Panic == [kind |-> "Panic", err |-> "", body |-> NoBody]

\* sync(): the closure's captures and the initial State
sync(s) ==
    /\ stream[s].ustate = "NotCreated"
    /\ \E args \in SyncArgs :
         LET filter == args[1]
             since == args[2]
             set_presence == args[3]
         IN  stream' = [stream EXCEPT ![s] =
                [ustate |-> "Value",
                 state |-> IF since = None THEN InitialSync ELSE Since(since[1]),
                 filter |-> filter,
                 set_presence |-> IF set_presence THEN None ELSE Some("offline"),
                 args |-> args]]
    /\ last' = NoLast
    /\ UNCHANGED <<homeserver_url, session, lock, inflight, disp, task,
                   reqs, dres, out, nops, issued, written>>

\* since of `match state`
SinceOf(state) == IF state.tag = "Since" THEN Some(state.token) ELSE None

\* the closure without `State::Errored => return None`: an Errored stream
\* dispatches again, without a since token
sync_poll_retry(s, t) ==
    /\ task[t].pc = "idle"
    /\ stream[s].ustate = "Value"
    /\ nops < MaxOps
    /\ nops' = nops + 1
    /\ IF FALSE
       THEN /\ stream' = [stream EXCEPT ![s].ustate = "Empty"]
            /\ out' = [out EXCEPT ![s] = Append(@, EndOfStream)]
            /\ UNCHANGED <<disp, dres, reqs, task, inflight>>
       ELSE LET req == sync_request(stream[s].filter, SinceOf(stream[s].state),
                                    stream[s].set_presence)
            IN  /\ reqs' = [reqs EXCEPT ![s] = Append(@, req)]
                /\ stream' = [stream EXCEPT ![s].ustate = "Future"]
                /\ disp' = [disp EXCEPT ![s] = StartRequest(req)]
                /\ inflight' = [inflight EXCEPT ![s] =
                                   IF StartRequest(req).pc = "calling" THEN @ + 1 ELSE @]
                /\ task' = [task EXCEPT ![t] = [op |-> "next", pc |-> "await"]]
                /\ UNCHANGED <<out, dres>>
    /\ last' = NoLast
    /\ UNCHANGED <<homeserver_url, session, lock, issued, written>>

\* a stream that starts the next request while the previous one is running
sync_poll_pipelined(s, t) ==
    /\ task[t].pc = "idle"
    /\ stream[s].ustate \in {"Value", "Future"}
    /\ nops < MaxOps
    /\ nops' = nops + 1
    /\ IF stream[s].state = Errored
       THEN /\ stream' = [stream EXCEPT ![s].ustate = "Empty"]
            /\ out' = [out EXCEPT ![s] = Append(@, EndOfStream)]
            /\ UNCHANGED <<disp, dres, reqs, task, inflight>>
       ELSE LET req == sync_request(stream[s].filter, SinceOf(stream[s].state),
                                    stream[s].set_presence)
            IN  /\ reqs' = [reqs EXCEPT ![s] = Append(@, req)]
                /\ stream' = [stream EXCEPT ![s].ustate = "Future"]
                /\ disp' = [disp EXCEPT ![s] = StartRequest(req)]
                /\ inflight' = [inflight EXCEPT ![s] =
                                   IF StartRequest(req).pc = "calling" THEN @ + 1 ELSE @]
                /\ task' = [task EXCEPT ![t] = [op |-> "next", pc |-> "await"]]
                /\ UNCHANGED <<out, dres>>
    /\ last' = NoLast
    /\ UNCHANGED <<homeserver_url, session, lock, issued, written>>

\* a task polls the stream (stream.next().await) while it holds a State:
\* Unfold takes the State and runs the closure, which returns None when
\* Errored and otherwise builds the request and polls client.request(..) up to
\* its first suspension; the task then waits for the item
sync_poll(s, t) ==
    /\ task[t].pc = "idle"
    /\ stream[s].ustate = "Value"
    /\ nops < MaxOps
    /\ nops' = nops + 1
    /\ IF stream[s].state = Errored
       THEN /\ stream' = [stream EXCEPT ![s].ustate = "Empty"]
            /\ out' = [out EXCEPT ![s] = Append(@, EndOfStream)]
            /\ UNCHANGED <<disp, dres, reqs, task, inflight>>
       ELSE LET req == sync_request(stream[s].filter, SinceOf(stream[s].state),
                                    stream[s].set_presence)
            IN  /\ reqs' = [reqs EXCEPT ![s] = Append(@, req)]
                /\ stream' = [stream EXCEPT ![s].ustate = "Future"]
                /\ disp' = [disp EXCEPT ![s] = StartRequest(req)]
                /\ inflight' = [inflight EXCEPT ![s] =
                                   IF StartRequest(req).pc = "calling" THEN @ + 1 ELSE @]
                /\ task' = [task EXCEPT ![t] = [op |-> "next", pc |-> "await"]]
                /\ UNCHANGED <<out, dres>>
    /\ last' = NoLast
    /\ UNCHANGED <<homeserver_url, session, lock, issued, written>>

\* a poll after the stream returned None: Unfold panics
sync_poll_ended(s, t) ==
    /\ task[t].pc = "idle"
    /\ stream[s].ustate = "Empty"
    /\ nops < MaxOps
    /\ nops' = nops + 1
    /\ out' = [out EXCEPT ![s] = Append(@, Panic)]
    /\ last' = NoLast
    /\ UNCHANGED <<homeserver_url, session, lock, inflight, disp, task,
                   stream, reqs, dres, issued, written>>

----------------------------------------------------------------------------

Next ==
    \/ \E t \in Tasks : request(t)
    \/ \E t \in Tasks : log_in(t)
    \/ \E t \in Tasks : register_guest(t)
    \/ \E t \in Tasks : register_user(t)
    \/ \E t \in Tasks : login_lock(t)
    \/ \E t \in Tasks : login_write(t)
    \/ \E t \in Tasks : login_store(t)
    \/ \E t \in Tasks : session_lock(t)
    \/ \E t \in Tasks : session_read(t)
    \/ \E s \in Streams : sync(s)
    \/ \E s \in Streams, t \in Tasks : sync_poll(s, t)
    \/ \E s \in Streams, t \in Tasks : sync_poll_ended(s, t)
    \/ \E d \in Slots : request_lock(d)
    \/ \E d \in Slots : request_auth(d)
    \/ \E d \in Slots : request_resume(d)

Spec == Init /\ [][Next]_vars

----------------------------------------------------------------------------
(* Reading a query string back: url::form_urlencoded::parse *)

FirstIndex(s, c) ==
    IF \E i \in 1..Len(s) : s[i] = c
    THEN CHOOSE i \in 1..Len(s) : s[i] = c /\ \A j \in 1..(i - 1) : s[j] # c
    ELSE 0

RECURSIVE Split(_, _)
Split(s, c) ==
    LET i == FirstIndex(s, c)
    IN  IF i = 0 THEN <<s>>
        ELSE <<SubSeq(s, 1, i - 1)>> \o Split(SubSeq(s, i + 1, Len(s)), c)

RECURSIVE form_urldecode(_)
form_urldecode(s) ==
    IF s = <<>> THEN <<>>
    ELSE IF s[1] = "+" THEN <<" ">> \o form_urldecode(Tail(s))
    ELSE IF Len(s) >= 3 /\ SubSeq(s, 1, 3) = <<"%","3","D">>
         THEN <<"=">> \o form_urldecode(SubSeq(s, 4, Len(s)))
    ELSE IF Len(s) >= 3 /\ SubSeq(s, 1, 3) = <<"%","2","6">>
         THEN <<"&">> \o form_urldecode(SubSeq(s, 4, Len(s)))
    ELSE <<s[1]>> \o form_urldecode(Tail(s))

\* one name=value segment, split at its first '=' and decoded
ParsePair(seg) ==
    LET i == FirstIndex(seg, "=")
    IN  IF i = 0 THEN <<form_urldecode(seg), <<>>>>
        ELSE <<form_urldecode(SubSeq(seg, 1, i - 1)),
               form_urldecode(SubSeq(seg, i + 1, Len(seg)))>>

\* the (name, value) pairs of a query, in order; empty segments are skipped
QueryPairs(query) ==
    IF query = None THEN <<>>
    ELSE LET segs  == Split(query[1], "&")
             full  == SelectSeq(segs, LAMBDA seg : seg # <<>>)
         IN  [i \in 1..Len(full) |-> ParsePair(full[i])]

Count(pairs, p) == Cardinality({ i \in 1..Len(pairs) : pairs[i] = p })

\* every request() future the state shows: the running ones and the one that
\* has just returned
Dispatches == { disp[d] : d \in Slots } \cup { last.disp }

Authenticated(r) == r.pc # "idle" /\ r.request.requires_authentication

----------------------------------------------------------------------------
(* C1 *)

\* C1 as stated: while the store holds no session (it never returns to none,
\* so none was stored during the whole dispatch), every finished dispatch to
\* an endpoint that requires authentication resulted in AuthenticationRequired
\* without a transport call.
C1_Original ==
    session = None =>
        \A r \in Dispatches :
            Authenticated(r) /\ r.pc = "done" =>
                r.result = Err("AuthenticationRequired") /\ r.ncalls = 0

\* C1 (amended): while the store holds no session, a dispatch to an endpoint
\* that requires authentication never invokes the transport, and its result
\* is AuthenticationRequired whenever its request could be converted; when
\* the conversion failed, the result is that conversion error instead.  The
\* result is what the caller of request() gets.
C1_AuthenticationRequired ==
    session = None =>
        /\ \A r \in Dispatches :
              Authenticated(r) =>
                  /\ r.ncalls = 0
                  /\ r.uri = None
                  /\ r.pc \in {"converted", "locked", "done"}
                  /\ r.pc = "done" =>
                        r.result = IF r.request.wire = None THEN Err("RumaApi")
                                   ELSE Err("AuthenticationRequired")
        /\ \A d \in Slots : Authenticated(disp[d]) => inflight[d] = 0
        /\ last.op \in {"request", "sync"} => last.ret = last.disp.result

C1_Witness ==
    /\ session = None
    /\ last.op = "request"
    /\ Authenticated(last.disp)
    /\ last.disp.seen = Some(None)
    /\ last.ret = Err("AuthenticationRequired")
    /\ last.disp.ncalls = 0

----------------------------------------------------------------------------
(* C2 *)

\* the token the dispatch read from the store at its authentication step
TokenSeen(r) == r.seen[1][1].access_token

\* C2 as stated: the query of the wire request handed to the transport by an
\* authenticated dispatch contains the pair access_token=<stored token>
\* exactly once, whatever query the endpoint conversion produced.
C2_Original ==
    \A r \in Dispatches :
        Authenticated(r) /\ r.uri # None =>
            Count(QueryPairs(r.uri[1].query), <<ACCESS_TOKEN, TokenSeen(r)>>) = 1

\* C2 (amended): the query of the wire request handed to the transport by an
\* authenticated dispatch is the query the endpoint conversion produced
\* followed by one appended pair access_token=<stored token> (the query of
\* the homeserver base URL is dropped); so the pair occurs once more than in
\* the endpoint's own query, and exactly once when that query does not carry
\* it already.
C2_AccessTokenAppended ==
    \A r \in Dispatches :
        Authenticated(r) /\ r.uri # None =>
            /\ r.seen # None /\ r.seen[1] # None
            /\ QueryPairs(r.uri[1].query) =
                  QueryPairs(r.request.wire[1].query)
                      \o << <<ACCESS_TOKEN, TokenSeen(r)>> >>
            /\ Count(QueryPairs(r.uri[1].query), <<ACCESS_TOKEN, TokenSeen(r)>>) =
                  1 + Count(QueryPairs(r.request.wire[1].query),
                            <<ACCESS_TOKEN, TokenSeen(r)>>)

C2_Witness ==
    \E d \in Slots :
        /\ disp[d].pc = "calling"
        /\ Authenticated(disp[d])
        /\ TokenSeen(disp[d]) = <<"b","&">>
        /\ disp[d].request.wire[1].query # None
        /\ homeserver_url.query # None
        /\ Count(QueryPairs(disp[d].uri[1].query), <<ACCESS_TOKEN, <<"b","&">>>>) = 1

----------------------------------------------------------------------------
(* C3 *)

\* the items among the results of a stream's polls
Items(o) == SelectSeq(o, LAMBDA x : x.kind \in {"Ok", "Err"})

\* C3: the items a sync stream produced are exactly the results of its
\* dispatches, in order; an Err item is the last item and the poll after it
\* returns the end of the stream; the stream ends only right after an Err
\* item, never after an Ok item; polls after the end produce nothing.
C3_SyncStreamResults ==
    \A s \in Streams :
        LET o == out[s]
        IN  /\ Items(o) = dres[s]
            /\ \A i \in 1..Len(o) :
                  /\ o[i].kind = "Err" =>
                        /\ \A j \in (i + 1)..Len(o) : o[j].kind \in {"None", "Panic"}
                        /\ i < Len(o) => o[i + 1].kind = "None"
                  /\ o[i].kind = "None" => i > 1 /\ o[i - 1].kind = "Err"
                  /\ o[i].kind = "Panic" => i > 1 /\ o[i - 1].kind \in {"None", "Panic"}
            /\ (o # <<>> /\ o[Len(o)].kind = "Err") =>
                  stream[s].state = Errored /\ stream[s].ustate = "Value"
            /\ (o # <<>> /\ o[Len(o)].kind = "Ok") =>
                  stream[s].state # Errored /\ stream[s].ustate \in {"Value", "Future"}

C3_Witness ==
    \E s \in Streams :
        /\ Len(out[s]) = 4
        /\ out[s][1].kind = "Ok" /\ out[s][1].body.next_batch = "t1"
        /\ out[s][2].kind = "Ok" /\ out[s][2].body.next_batch = "t2"
        /\ out[s][3].kind = "Err"
        /\ out[s][4].kind = "None"

----------------------------------------------------------------------------
(* C4 *)

\* C4: once the State of a sync stream is Errored, no step changes it, issues
\* a dispatch for the stream (no request built, no request() future, no
\* transport call, no acquisition of the session lock by the stream) or adds
\* an item to what the stream produced.
C4_ErroredAbsorbing ==
    [][\A s \in Streams :
          stream[s].state = Errored =>
              /\ stream'[s].state = Errored
              /\ reqs'[s] = reqs[s]
              /\ dres'[s] = dres[s]
              /\ disp[s].pc = "idle" /\ disp'[s] = disp[s]
              /\ inflight'[s] = inflight[s]
              /\ lock' # s
              /\ Items(out'[s]) = Items(out[s])]_vars

C4_Witness ==
    \E s \in Streams :
        /\ stream[s].state = Errored
        /\ stream[s].ustate = "Empty"
        /\ Len(out[s]) >= 3
        /\ out[s][Len(out[s]) - 1].kind = "None"
        /\ out[s][Len(out[s])].kind = "Panic"
        /\ session # None

----------------------------------------------------------------------------
(* C5 *)

\* C5: the first sync request of a stream carries the since argument of
\* sync(), every later one the next_batch of the stream's preceding dispatch,
\* which succeeded; all carry the filter and the presence setting given to
\* sync().
C5_SinceThreaded ==
    \A s \in Streams :
        /\ \A i \in 1..Len(reqs[s]) :
              /\ reqs[s][i].endpoint = "sync"
              /\ reqs[s][i].filter = stream[s].args[1]
              /\ reqs[s][i].set_presence =
                    (IF stream[s].args[3] THEN None ELSE Some("offline"))
              /\ i = 1 => reqs[s][i].since = stream[s].args[2]
              /\ i > 1 =>
                    /\ Len(dres[s]) >= i - 1
                    /\ dres[s][i - 1].kind = "Ok"
                    /\ reqs[s][i].since = Some(dres[s][i - 1].body.next_batch)
        /\ disp[s].pc # "idle" =>
              reqs[s] # <<>> /\ disp[s].request = reqs[s][Len(reqs[s])]

C5_Witness ==
    \E s \in Streams :
        /\ Len(reqs[s]) = 3
        /\ reqs[s][1].since = Some("t0")
        /\ reqs[s][2].since = Some("t1")
        /\ reqs[s][3].since = Some("t2")
        /\ reqs[s][3].filter = Some("f1")

----------------------------------------------------------------------------
(* C6 *)

\* C6: a sync stream has at most one dispatch outstanding: at most one call
\* of it is at the transport, and a new request is built only when every
\* earlier dispatch has completed and its item has been produced.
C6_OneInFlight ==
    \A s \in Streams :
        /\ inflight[s] <= 1
        /\ Len(reqs[s]) <= Len(dres[s]) + 1
        /\ Len(reqs[s]) = Len(dres[s]) + 1 <=> disp[s].pc # "idle"
        /\ disp[s].pc # "idle" =>
              /\ stream[s].ustate = "Future"
              /\ Len(Items(out[s])) = Len(dres[s])
        /\ inflight[s] = 1 => disp[s].pc = "calling"

C6_Witness ==
    \E s \in Streams :
        /\ inflight[s] = 1
        /\ Len(dres[s]) = 2
        /\ Len(Items(out[s])) = 2

----------------------------------------------------------------------------
(* C7 *)

----------------------------------------------------------------------------
(* C8 *)

\* C8: a step in which a Client method (or a stream's dispatch) returns after
\* the transport failed its call returns the transport error and leaves the
\* stored session as it was; for log_in and the registrations this is the
\* method's own return.
C8_TransportFailure ==
    [][last'.disp.answer = Some(TransportFailure) =>
          /\ last'.ret = Err("HttpRequester")
          /\ last'.disp.result = Err("HttpRequester")
          /\ last'.val = None
          /\ session' = session
          /\ issued' = issued]_vars

C8_Witness ==
    /\ last.op \in LoginOps
    /\ last.disp.answer = Some(TransportFailure)
    /\ last.ret = Err("HttpRequester")
    /\ session = Some(Session(<<"a">>, "D1", "@a:x"))

----------------------------------------------------------------------------
(* C9 *)

\* C9: a dispatch whose call is at the transport does not hold the session
\* lock.
C9_NoLockAcrossCall ==
    \A d \in Slots : (disp[d].pc = "calling" \/ inflight[d] > 0) => lock # d

\* an authenticated dispatch is at the transport while another slot holds
\* the session lock
C9_Witness ==
    \E d \in Slots, e \in Slots :
        /\ d # e
        /\ disp[d].pc = "calling"
        /\ Authenticated(disp[d])
        /\ lock = e

----------------------------------------------------------------------------
(* C10 *)

Unauthenticated(r) == r.pc # "idle" /\ ~r.request.requires_authentication

\* a step of a request() future of slot d whose endpoint requires no
\* authentication: its start, its immediate failure, or its completion
StepOfUnauthenticated(d) ==
    \/ /\ disp[d].pc = "calling"
       /\ Unauthenticated(disp[d])
       /\ disp'[d] # disp[d]
    \/ /\ disp[d].pc = "idle"
       /\ Unauthenticated(disp'[d])
    \/ /\ disp[d].pc = "idle"
       /\ disp'[d].pc = "idle"
       /\ last' # last
       /\ last'.slot = d
       /\ last'.disp.pc = "done"
       /\ Unauthenticated(last'.disp)

\* C10: a dispatch to an endpoint that requires no authentication never waits
\* for or holds the session lock, never reads the session (its wire query is
\* the endpoint's own), and none of its steps changes the stored session or
\* the lock.
C10_UnauthenticatedNoStore ==
    /\ [](\A r \in Dispatches :
             Unauthenticated(r) =>
                 /\ r.seen = None
                 /\ r.pc \in {"calling", "done"}
                 /\ r.uri # None => r.uri[1].query = r.request.wire[1].query)
    /\ [](\A d \in Slots :
             Unauthenticated(disp[d]) /\ disp[d].pc = "calling" => lock # d)
    /\ [][\A d \in Slots :
             StepOfUnauthenticated(d) => session' = session /\ lock' = lock]_vars

C10_Witness ==
    \E d \in Slots :
        /\ disp[d].pc = "calling"
        /\ disp[d].request.endpoint = "custom"
        /\ Unauthenticated(disp[d])
        /\ session # None
        /\ lock \notin {d, NoHolder}

----------------------------------------------------------------------------
(* C11 *)

\* the sessions a successful login or registration response gives
ResponseSessions == { Some(SessionOf(b)) : b \in { x \in LoginBodies : x.ok } }

\* C11: the stored session changes only in steps of log_in, register_guest or
\* register_user that follow the success of their dispatch, and no such step
\* is a step of a dispatch (no request() future advances in it and no call
\* enters or leaves the transport); the new value is the session built from
\* the response of that dispatch.  Hence the stored value, outside the
\* assignment that replaces it, is the session given to Client::new until a
\* login or registration stores one, and from then on the session of a
\* successful login/registration response.
C11_RequestLeavesStore ==
    /\ []((\A t \in Tasks : task[t].pc # "writing") =>
             /\ session = issued
             /\ written.by = "new" => session \in {None, Some(InitSession)}
             /\ written.by # "new" => written.by \in Tasks /\ session \in ResponseSessions)
    /\ [][session' # session =>
             \E t \in Tasks :
                 /\ task[t].op \in LoginOps
                 /\ task[t].pc \in {"locked", "writing"}
                 /\ disp[t].pc = "done"
                 /\ disp[t].result.kind = "Ok"
                 /\ disp[t].answer = Some(Response(disp[t].result.body))
                 /\ task'[t].pc # "writing" =>
                       session' = Some(SessionOf(disp[t].answer[1].body))
                 /\ inflight' = inflight
                 /\ \A d \in Slots :
                       disp'[d] = disp[d] \/ (d = t /\ disp'[d] = IdleDispatch)]_vars

\* a request() has just returned Ok and the dispatch of a log_in has
\* succeeded, and the store still holds the constructor's session
C11_Witness ==
    /\ last.op = "request"
    /\ last.ret.kind = "Ok"
    /\ session = Some(InitSession)
    /\ written.by = "new"
    /\ \E t \in Tasks :
          /\ task[t].op \in LoginOps
          /\ task[t].pc = "store"
          /\ disp[t].result.kind = "Ok"

----------------------------------------------------------------------------
(* C12 *)

\* the request() future of slot d after a step: where it is now, or as it
\* ended when the step completed it
After(d) == IF disp'[d].pc = "idle" THEN last'.disp ELSE disp'[d]

\* the step in which the dispatch of slot d reads the store
AuthenticationStep(d) == disp[d].pc = "locked" /\ disp'[d] # disp[d]

\* the step in which session() returns to the task t
SessionReturns(t) ==
    task[t].op = "session" /\ task[t].pc = "locked" /\ task'[t].pc = "idle"

\* C12: whichever clone reads the store (a task calling session(), a task's
\* authenticated dispatch, or the dispatch of a sync stream through the clone
\* the stream captured), the value read is the session the latest successful
\* log_in / registration stored through whichever clone (the constructor's
\* before any), and the token injected is the token of that session.
C12_ClonesShareStore ==
    [][/\ \A t \in Tasks :
             SessionReturns(t) => last'.slot = t /\ last'.val = issued
       /\ \A d \in Slots :
             AuthenticationStep(d) =>
                 /\ After(d).seen = Some(issued)
                 /\ After(d).uri # None =>
                       /\ issued # None
                       /\ After(d).uri[1].query =
                             append_pair(After(d).request.wire[1].query,
                                         ACCESS_TOKEN, issued[1].access_token)
       /\ \A t \in Tasks :
             (task[t].pc = "writing" /\ task'[t].pc = "idle") =>
                 /\ written'.by = t
                 /\ issued' = last'.val
                 /\ session' = issued']_vars

\* a stream that had produced an item before a task stored a session has a
\* call at the transport carrying that session's token, while session() on
\* the clone of another task has just returned that session
C12_Witness ==
    /\ written.by \in Tasks
    /\ last.op = "session"
    /\ last.slot # written.by
    /\ last.val = issued
    /\ \E s \in Streams :
          /\ written.polls[s] >= 1
          /\ disp[s].pc = "calling"
          /\ disp[s].seen = Some(issued)

----------------------------------------------------------------------------
(* C13 *)

\* none, or a session all of whose fields come from one source: the
\* constructor's argument or one login/registration response
Whole(v) == v \in {None, Some(InitSession)} \cup ResponseSessions

\* C13: every value session() returns and every value a dispatch reads at its
\* authentication step is none or a complete session from a single source,
\* although the store holds a mix of two sessions while an assignment to it
\* is under way: the writer holds the lock during the assignment, and every
\* reader holds it when it reads.
C13_NoTornRead ==
    /\ last.op = "session" => Whole(last.val)
    /\ \A r \in Dispatches : r.seen # None => Whole(r.seen[1])
    /\ \A t \in Tasks : task[t].pc \in {"locked", "writing"} => lock = t
    /\ \A d \in Slots : disp[d].pc = "locked" => lock = d
    /\ ~Whole(session) => \E t \in Tasks : task[t].pc = "writing"

\* the store holds a mix of the constructor's session and a new one under the
\* writer's lock while an authenticated dispatch of another clone waits for
\* the lock
C13_Witness ==
    \E t \in Tasks, d \in Slots :
        /\ task[t].pc = "writing"
        /\ ~Whole(session)
        /\ session # None /\ session[1].device_id = "D0"
        /\ d # t
        /\ disp[d].pc = "converted"
        /\ session[1].access_token # InitSession.access_token

----------------------------------------------------------------------------
(* C14 *)

\* C14: all the session() calls that return between two stores of a
\* successful log_in / registration (or before the first) return the same
\* value, which is the stored one; and the step in which session() returns
\* changes neither the store nor anything else of the client but the lock it
\* releases.
C14_SessionIdempotent ==
    /\ [](\A i \in 1..Len(written.reads) :
             /\ written.reads[i] = written.reads[1]
             /\ (\A t \in Tasks : task[t].pc # "writing") => written.reads[i] = session)
    /\ [][\A t \in Tasks :
             SessionReturns(t) =>
                 /\ session' = session
                 /\ last'.val = session
                 /\ written'.reads = Append(written.reads, last'.val)
                 /\ lock = t /\ lock' = NoHolder
                 /\ UNCHANGED <<homeserver_url, inflight, disp, stream, issued>>]_vars
    /\ [][written'.reads # written.reads =>
             \/ \E t \in Tasks : SessionReturns(t)
             \/ /\ written'.reads = <<>>
                /\ last'.op \in LoginOps
                /\ last'.ret.kind = "Ok"]_vars

\* two session() calls have returned since a log_in stored its session, the
\* second just now, both with that session
C14_Witness ==
    /\ last.op = "session"
    /\ written.by \in Tasks
    /\ Len(written.reads) = 2
    /\ written.reads[1] = Some(Session(<<"a">>, "D1", "@a:x"))
    /\ written.reads[2] = written.reads[1]
    /\ session = written.reads[1]

----------------------------------------------------------------------------
(* C15 *)

\* the steps of request() before the call all succeeded
ReachesTransport(r) ==
    /\ r.request.wire # None
    /\ r.request.requires_authentication => r.seen # None /\ r.seen[1] # None
    /\ UriFromStr(r.url) # None

\* C15: a dispatch calls the transport at most once: once when the conversion
\* of the request, the authentication step and the parsing of the URI all
\* succeeded, never otherwise; a dispatch that ended without a call ended with
\* the error of the step that failed, one that ended after its call with the
\* transport's error, the response conversion's error or the response; and
\* that result is what the caller of request(), the failing log_in /
\* registration, or the stream's consumer is given.
C15_NoRetry ==
    /\ \A r \in Dispatches :
          r.pc # "idle" =>
              /\ r.ncalls \in {0, 1}
              /\ r.pc = "calling" => r.ncalls = 1 /\ ReachesTransport(r)
              /\ r.pc \in {"converted", "locked"} => r.ncalls = 0
              /\ r.pc = "done" =>
                    /\ r.ncalls = 1 <=> ReachesTransport(r)
                    /\ r.ncalls = 1 <=> r.answer # None
                    /\ r.ncalls = 0 =>
                          r.result =
                              IF r.request.wire = None THEN Err("RumaApi")
                              ELSE IF r.request.requires_authentication
                                      /\ r.seen = Some(None)
                                   THEN Err("AuthenticationRequired")
                              ELSE Err("Uri")
                    /\ r.ncalls = 1 =>
                          r.result =
                              IF r.answer[1].failed THEN Err("HttpRequester")
                              ELSE IF ~r.answer[1].body.ok THEN Err("RumaApi")
                              ELSE Ok(r.answer[1].body)
    /\ \A d \in Slots :
          /\ inflight[d] = (IF disp[d].pc = "calling" THEN 1 ELSE 0)
          /\ disp[d].pc = "done" =>
                d \in Tasks /\ task[d].op \in LoginOps /\ disp[d].result.kind = "Ok"
    /\ last.op \in {"request", "sync"} =>
          last.disp.pc = "done" /\ last.ret = last.disp.result
    /\ last.op \in LoginOps =>
          /\ last.disp.pc = "done"
          /\ last.ret.kind = last.disp.result.kind
          /\ last.ret.kind = "Err" => last.ret = last.disp.result
    /\ \A s \in Streams :
          last.op = "sync" /\ last.slot = s =>
              out[s] # <<>> /\ out[s][Len(out[s])] = last.ret

\* an authenticated request() whose single call the transport failed has
\* returned the transport's error
C15_Witness ==
    /\ last.op = "request"
    /\ Authenticated(last.disp)
    /\ last.disp.ncalls = 1
    /\ last.disp.answer = Some(TransportFailure)
    /\ last.ret = Err("HttpRequester")

----------------------------------------------------------------------------
(* C16 *)

\* C16: a dispatch whose request cannot be converted to a wire request ends
\* at once with the conversion error (InnerError::RumaApi, the spec's
\* SerializationError), whether or not its endpoint requires authentication
\* and whether or not a session is stored; it has not read the store, has no
\* URI and has not called the transport, and the step in which it runs
\* leaves the lock, the store and the transport as they were.
C16_ConversionFirst ==
    /\ [](\A r \in Dispatches :
             (r.pc # "idle" /\ r.request.wire = None) =>
                 /\ r.pc = "done"
                 /\ r.result = Err("RumaApi")
                 /\ r.seen = None
                 /\ r.uri = None
                 /\ r.ncalls = 0
                 /\ r.answer = None)
    /\ [](\A d \in Slots : disp[d].pc # "idle" => disp[d].request.wire # None)
    /\ [][(last' # last /\ last'.disp.pc # "idle" /\ last'.disp.request.wire = None) =>
             /\ last'.ret = Err("RumaApi")
             /\ disp[last'.slot].pc = "idle"
             /\ lock' = lock
             /\ session' = session
             /\ inflight' = inflight]_vars

\* a request to an endpoint requiring authentication, which cannot be
\* converted, has returned the conversion error while a session is stored and
\* another clone holds the session lock
C16_Witness ==
    /\ last.op = "request"
    /\ last.disp.request.wire = None
    /\ Authenticated(last.disp)
    /\ last.ret = Err("RumaApi")
    /\ session # None
    /\ lock \in Tasks \ {last.slot}

----------------------------------------------------------------------------
(* C17 *)

\* the query request() sends for the dispatch r: the endpoint's own, with
\* the access_token pair appended when the endpoint requires authentication
SentQuery(r) ==
    IF r.request.requires_authentication
    THEN append_pair(r.request.wire[1].query, ACCESS_TOKEN, TokenSeen(r))
    ELSE r.request.wire[1].query

\* C17: the URI handed to the transport has the scheme, host and port of the
\* homeserver URL, the path of the endpoint's wire request and the query of
\* that wire request (with the access_token pair appended for an endpoint
\* requiring authentication); nothing of the path or the query of the
\* homeserver URL is in it; and homeserver_url itself never changes.
C17_UrlOverlay ==
    /\ [](\A r \in Dispatches :
             /\ r.uri # None =>
                   /\ r.uri[1].scheme = homeserver_url.scheme
                   /\ r.uri[1].host = homeserver_url.host
                   /\ r.uri[1].port = homeserver_url.port
                   /\ r.uri[1].path = r.request.wire[1].path
                   /\ r.uri[1].query = SentQuery(r)
             /\ (r.pc # "idle" /\ r.request.wire # None) =>
                   /\ r.url.scheme = homeserver_url.scheme
                   /\ r.url.host = homeserver_url.host
                   /\ r.url.port = homeserver_url.port
                   /\ r.url.path = r.request.wire[1].path
                   /\ r.url.fragment = homeserver_url.fragment)
    /\ [][homeserver_url' = homeserver_url]_vars

\* a log_in through a client whose homeserver URL has a path and a query: the
\* URI of its call has the login path and no query
C17_Witness ==
    \E d \in Slots :
        /\ disp[d].pc = "calling"
        /\ homeserver_url.path = "/base"
        /\ homeserver_url.query = Some(<<"x","=","1">>)
        /\ disp[d].request.endpoint = "login"
        /\ disp[d].uri[1].scheme = "http"
        /\ disp[d].uri[1].host = "hs.test"
        /\ disp[d].uri[1].port = "8448"
        /\ disp[d].uri[1].path = LOGIN_PATH
        /\ disp[d].uri[1].query = None

----------------------------------------------------------------------------
(* C18 *)

\* the latest dispatch of the stream s ended with AuthenticationRequired
RefusedForAuthentication(s) ==
    dres[s] # <<>> /\ dres[s][Len(dres[s])] = Err("AuthenticationRequired")

\* C18: when the dispatch of a stream's pull reads an empty store, the pull
\* produces an AuthenticationRequired item without a transport call and the
\* stream's State becomes Errored; from then on, whatever is stored since, no
\* step changes that State, builds a request for the stream, starts a
\* dispatch or a transport call for it, or adds an item to what it produced.
C18_NotRevivedByLogin ==
    /\ [](\A s \in Streams :
             RefusedForAuthentication(s) =>
                 /\ stream[s].state = Errored
                 /\ disp[s].pc = "idle"
                 /\ inflight[s] = 0
                 /\ Len(Items(out[s])) = Len(dres[s])
                 /\ Items(out[s])[Len(dres[s])] = Err("AuthenticationRequired"))
    /\ [][\A s \in Streams :
             /\ (AuthenticationStep(s) /\ session = None) =>
                   /\ out'[s] = Append(out[s], Err("AuthenticationRequired"))
                   /\ stream'[s].state = Errored
                   /\ last'.disp.ncalls = 0
                   /\ inflight' = inflight
             /\ RefusedForAuthentication(s) =>
                   /\ stream'[s].state = Errored
                   /\ reqs'[s] = reqs[s]
                   /\ dres'[s] = dres[s]
                   /\ disp'[s] = disp[s]
                   /\ inflight'[s] = inflight[s]
                   /\ lock' # s
                   /\ Items(out'[s]) = Items(out[s])]_vars

\* the stream produced AuthenticationRequired, then a task stored a session,
\* and the pull made after that returned the end of the stream
C18_Witness ==
    \E s \in Streams :
        /\ out[s] = <<Err("AuthenticationRequired"), EndOfStream>>
        /\ written.by \in Tasks
        /\ written.polls[s] = 1
        /\ session = issued /\ session # None
        /\ stream[s].state = Errored

----------------------------------------------------------------------------
(* C19 *)

\* C19: the dispatch of each pull of a stream reads the store at its own
\* authentication step: it then sees the session stored at that moment and
\* the URI it hands to the transport carries that session's token, whatever
\* was stored when the stream was created or at its earlier pulls; and the
\* URI of a dispatch that is at the transport, of a stream or of a task, and
\* the session it read, stay as they are until it completes, whatever is
\* stored meanwhile.
C19_TokenReadAtEachPull ==
    [][/\ \A s \in Streams :
             AuthenticationStep(s) =>
                 /\ After(s).seen = Some(session)
                 /\ session = None => After(s).result = Err("AuthenticationRequired")
                 /\ After(s).uri # None =>
                       After(s).uri[1].query =
                           append_pair(After(s).request.wire[1].query,
                                       ACCESS_TOKEN, session[1].access_token)
       /\ \A d \in Slots :
             disp[d].pc = "calling" =>
                 /\ After(d).uri = disp[d].uri
                 /\ After(d).seen = disp[d].seen
                 /\ After(d).request = disp[d].request]_vars

\* a stream produced an item, then a task stored a session, and the call of
\* the stream's next pull carries that session; meanwhile the call of another
\* task, handed to the transport before the store, still carries the session
\* it read
C19_Witness ==
    \E s \in Streams, d \in Tasks :
        /\ out[s] # <<>> /\ out[s][1].kind = "Ok"
        /\ written.by \in Tasks
        /\ written.polls[s] = 1
        /\ disp[s].pc = "calling"
        /\ disp[s].seen = Some(session)
        /\ TokenSeen(disp[s]) # InitSession.access_token
        /\ disp[d].pc = "calling"
        /\ Authenticated(disp[d])
        /\ disp[d].seen = Some(Some(InitSession))

====
